---- MODULE Spec2Model ----
(***************************************************************************)
(* urlshort: a chain of redirect handlers (JSON file, YAML file, Bolt      *)
(* store, static map) in front of a default mux.                           *)
(*                                                                         *)
(* Strings.  A Go string that is used as a request path, a map key or a    *)
(* redirect target is the record [scheme, host, path]: the text            *)
(* scheme "://" host path, or just path when scheme and host are empty.    *)
(* path is the text split on "/" (strings.Split), so                       *)
(*    ""      is <<"">>            "/"    is <<"", "">>                    *)
(*    "/a"    is <<"", "a">>       "//a"  is <<"", "", "a">>               *)
(*    "x/y"   is <<"x", "y">>      "/a/"  is <<"", "a", "">>               *)
(***************************************************************************)
EXTENDS Integers, Sequences, FiniteSets, TLC

VARIABLES
    pc,         \* position of main: which startup step is next, or how it ended
    run,        \* number of times the process has been started
    store,      \* the Bolt file: [bucket |-> URLRedirects exists, kv |-> its pairs]
    dbOpen,     \* the Bolt file is open (and locked) by this process
    dbOps,      \* number of store operations (open, update, view, close) of this run
    yamlFile,   \* the YAML file: [exists, content]
    jsonFile,   \* the JSON file: [exists, content]
    yaml,       \* main's variable yaml: the bytes read from the YAML file
    jsonData,   \* main's variable jsonData: the bytes read from the JSON file
    handlers,   \* the handler values built so far: name -> [nil, paths, fallback]
    lastErr,    \* the (handler, err) pair the last constructor returned
    served,     \* the handler given to ListenAndServe ("none" before)
    failed,     \* the startup steps of this run that failed
    reqs,       \* the requests of this run: [path, at, trace, resp]
    boltLog,    \* outcome of every BoltHandler call so far, over all runs
    data,       \* buildRedirectMap: its argument
    redirects   \* buildRedirectMap: its result

vars == <<pc, run, store, dbOpen, dbOps, yamlFile, jsonFile, yaml, jsonData,
          handlers, lastErr, served, failed, reqs, boltLog, data, redirects>>

-----------------------------------------------------------------------------
(* Bounds *)

MaxRecs == 2        \* records in an argument of buildRedirectMap
MaxReqs == 2        \* requests in one run of the server
MaxRuns == 2        \* starts of the process on the same files

-----------------------------------------------------------------------------
(* Strings *)

Str(segs) == [scheme |-> "", host |-> "", path |-> segs]
Abs(scheme, host, segs) == [scheme |-> scheme, host |-> host, path |-> segs]

Empty == Str(<<"">>)

Front(s) == SubSeq(s, 1, Len(s) - 1)

\* the text starts with "/"
Rooted(s) == Len(s) >= 2 /\ s[1] = ""
\* the text ends with "/"
HasSlashSuffix(s) == Len(s) >= 2 /\ s[Len(s)] = ""

\* path.Clean, over the elements between slashes
RECURSIVE cleanElems(_, _, _)
cleanElems(elems, out, rooted) ==
    IF elems = <<>> THEN out
    ELSE LET e == Head(elems)
             rest == Tail(elems)
         IN  IF e = "" \/ e = "." THEN cleanElems(rest, out, rooted)
             ELSE IF e = ".."
                  THEN IF out # <<>> /\ out[Len(out)] # ".."
                       THEN cleanElems(rest, Front(out), rooted)
                       ELSE IF rooted THEN cleanElems(rest, out, rooted)
                            ELSE cleanElems(rest, Append(out, e), rooted)
                  ELSE cleanElems(rest, Append(out, e), rooted)

pathClean(s) ==
    LET out == cleanElems(s, <<>>, Rooted(s))
    IN  IF Rooted(s)
        THEN IF out = <<>> THEN <<"", "">> ELSE <<"">> \o out
        ELSE IF out = <<>> THEN <<".">> ELSE out

\* net/http cleanPath: the canonical form ServeMux compares a request path to
cleanPath(p) ==
    IF p = <<"">> THEN <<"", "">>
    ELSE LET q == IF Rooted(p) THEN p ELSE <<"">> \o p
             np == pathClean(q)
         IN  IF HasSlashSuffix(q) /\ np # <<"", "">> THEN np \o <<"">> ELSE np

-----------------------------------------------------------------------------
(* Responses *)

NoResp == [status |-> 0, location |-> {}, body |-> ""]

\* http.Redirect(w, r, url, code) for a request whose r.URL.Path is reqPath
Redirect(reqPath, url, code) ==
    LET oldpath == IF reqPath.path = <<"">> THEN <<"", "">> ELSE reqPath.path
        joined == IF Rooted(url.path) THEN url.path
                  ELSE Front(oldpath) \o url.path
        cleaned == pathClean(joined)
        target == IF HasSlashSuffix(joined) /\ ~HasSlashSuffix(cleaned)
                  THEN cleaned \o <<"">> ELSE cleaned
    IN  [status |-> code,
         location |-> {IF url.scheme = "" /\ url.host = "" THEN Str(target) ELSE url},
         body |-> IF code = 302 THEN "Found" ELSE "Moved Permanently"]

\* hello: fmt.Fprintln(w, "Hello, world!")
hello == [status |-> 200, location |-> {}, body |-> "Hello, world!\n"]

\* (variant) hello registered on "/" as an exact pattern: 404 for the rest
defaultMuxExact(reqPath) ==
    IF reqPath.path = <<"", "">> THEN hello
    ELSE [status |-> 404, location |-> {}, body |-> "404 page not found\n"]

\* defaultMux: a ServeMux with hello registered on "/"; the mux answers a path
\* that is not in canonical form with a 301 to the canonical form
defaultMux(reqPath) ==
    IF cleanPath(reqPath.path) # reqPath.path
    THEN Redirect(reqPath, Str(cleanPath(reqPath.path)), 301)
    ELSE hello

-----------------------------------------------------------------------------
(* buildRedirectMap *)

\* m[k] of a Go map[string]string: the zero value "" when k is absent
Index(m, k) == IF k \in DOMAIN m THEN m[k] ELSE Empty

NoPaths == [k \in {} |-> Empty]

\* redirects[key] = val
Assign(m, key, val) == [k \in DOMAIN m \cup {key} |-> IF k = key THEN val ELSE m[k]]

\* (variant) a path that is already a key keeps its first url
RECURSIVE buildFromFirstWins(_, _)
buildFromFirstWins(recs, acc) ==
    IF recs = <<>> THEN acc
    ELSE LET key == Index(Head(recs), "path")
         IN  buildFromFirstWins(Tail(recs),
                 IF key \in DOMAIN acc THEN acc
                 ELSE Assign(acc, key, Index(Head(recs), "url")))

\* (variant) a record that lacks a field is skipped
RECURSIVE buildFromSkipIncomplete(_, _)
buildFromSkipIncomplete(recs, acc) ==
    IF recs = <<>> THEN acc
    ELSE buildFromSkipIncomplete(Tail(recs),
             IF DOMAIN Head(recs) # {"path", "url"} THEN acc
             ELSE Assign(acc, Head(recs)["path"], Head(recs)["url"]))

RECURSIVE buildFrom(_, _)
buildFrom(recs, acc) ==
    IF recs = <<>> THEN acc
    ELSE buildFrom(Tail(recs),
                   Assign(acc, Index(Head(recs), "path"), Index(Head(recs), "url")))

buildRedirectMap(recs) == buildFrom(recs, NoPaths)

-----------------------------------------------------------------------------
(* The texts of the program and of the input files *)

Seg1(a) == Str(<<"", a>>)

\* main: the literal pathsToUrls
pathsToUrls ==
    Assign(Assign(NoPaths,
        Seg1("urlshort-godoc"),
        Abs("https", "godoc.org", <<"", "github.com", "gophercises", "urlshort">>)),
        Seg1("yaml-godoc"),
        Abs("https", "godoc.org", <<"", "gopkg.in", "yaml.v2">>))

\* BoltHandler: the pair it puts into a bucket it has just created
seedEntry ==
    Assign(NoPaths, Seg1("urlshort-bolt"),
           Abs("https", "github.com", <<"", "bcpoole", "urlshort">>))

Names == {"map", "bolt", "yaml", "json"}

NilHandler == [nil |-> TRUE, paths |-> NoPaths, fallback |-> "none"]
Handler(paths, fallback) == [nil |-> FALSE, paths |-> paths, fallback |-> fallback]

\* A file's text is a sequence of tokens.  "rec" is a well-formed mapping of
\* string fields; "type" is a syntactically valid element that does not decode
\* into map[string]string; "syntax" is text that is not YAML / JSON at all;
\* "open" and "close" are the brackets of a JSON array; "ws" is white space.
NoFields == [k \in {} |-> Empty]
Tok(kind) == [kind |-> kind, rec |-> NoFields]
Rec(p, u) == [kind |-> "rec", rec |-> [k \in {"path", "url"} |-> IF k = "path" THEN p ELSE u]]
RecPathOnly(p) == [kind |-> "rec", rec |-> [k \in {"path"} |-> p]]

RecsOf(doc) ==
    LET rs == SelectSeq(doc, LAMBDA t : t.kind = "rec")
    IN  [i \in 1..Len(rs) |-> rs[i].rec]

HasKind(doc, kind) == \E i \in 1..Len(doc) : doc[i].kind = kind

NoSpace(doc) == SelectSeq(doc, LAMBDA t : t.kind # "ws")

\* yaml.Unmarshal(yml, &ymlPaths): the records decoded and whether it failed.
\* A document that does not parse decodes nothing; a type error is reported
\* after the rest of the document has been decoded.
yamlUnmarshal(doc) ==
    IF HasKind(doc, "syntax")
    THEN [recs |-> <<>>, err |-> TRUE]
    ELSE [recs |-> RecsOf(doc), err |-> HasKind(doc, "type")]

\* json.Unmarshal(data, &jsonPaths): the text must be one array, "[" ... "]"
jsonValid(doc) ==
    LET d == NoSpace(doc)
    IN  /\ Len(d) >= 2
        /\ d[1].kind = "open"
        /\ d[Len(d)].kind = "close"
        /\ \A i \in 2..(Len(d) - 1) : d[i].kind \in {"rec", "type"}

jsonUnmarshal(doc) ==
    IF ~jsonValid(doc)
    THEN [recs |-> <<>>, err |-> TRUE]
    ELSE [recs |-> RecsOf(doc), err |-> HasKind(doc, "type")]

\* (variant) the handler is built before err is looked at
YAMLHandlerPartial(yml, fallback) ==
    LET u == yamlUnmarshal(yml)
    IN  [handler |-> Handler(buildRedirectMap(u.recs), fallback), err |-> u.err]

\* YAMLHandler(yml, fallback): the pair (handler, err) it returns
YAMLHandler(yml, fallback) ==
    LET u == yamlUnmarshal(yml)
    IN  IF u.err THEN [handler |-> NilHandler, err |-> TRUE]
        ELSE [handler |-> Handler(buildRedirectMap(u.recs), fallback), err |-> FALSE]

\* JSONHandler(data, fallback): the pair (handler, err) it returns
JSONHandler(bytes, fallback) ==
    LET u == jsonUnmarshal(bytes)
    IN  IF u.err THEN [handler |-> NilHandler, err |-> TRUE]
        ELSE [handler |-> Handler(buildRedirectMap(u.recs), fallback), err |-> FALSE]

\* ioutil.ReadFile: the (data, err) pairs it can return.  A file that cannot be
\* opened gives no data; a read error gives the bytes read before it.
ReadFile(file) ==
    IF ~file.exists THEN {[data |-> <<>>, err |-> TRUE]}
    ELSE {[data |-> file.content, err |-> FALSE]}
         \cup {[data |-> SubSeq(file.content, 1, n), err |-> TRUE] :
                   n \in 0..Len(file.content)}

\* (variant) the YAML handler is given the map handler, not the Bolt handler
mainFallbackSkipBolt(h) ==
    CASE h = "map" -> "mux"
      [] h = "bolt" -> "map"
      [] h = "yaml" -> "map"
      [] h = "json" -> "yaml"

\* main: the fallback each constructor is given, and the handler that is served
mainFallback(h) ==
    CASE h = "map" -> "mux"
      [] h = "bolt" -> "map"
      [] h = "yaml" -> "bolt"
      [] h = "json" -> "yaml"

mainServed == "json"

-----------------------------------------------------------------------------
(* Inputs *)

UA == Abs("https", "a.example", <<"", "a">>)
UY == Abs("https", "y.example", <<"", "y">>)
UJ == Abs("https", "j.example", <<"", "j">>)
URel == Str(<<"x", "">>)                 \* the relative reference "x/"

YamlDocs ==
    { <<Rec(Seg1("urlshort-bolt"), UY), Rec(Seg1("b"), UY)>>,
      <<Rec(Seg1("urlshort-godoc"), UY)>>,
      <<RecPathOnly(Seg1("b"))>>,
      <<Rec(Seg1("b"), UY), Tok("syntax")>>,
      <<Tok("type"), Rec(Seg1("b"), UY)>> }

JsonDocs ==
    { <<>>,
      <<Tok("open"), Rec(Seg1("b"), UJ), Tok("close"), Tok("ws")>>,
      <<Tok("open"), Rec(Seg1("urlshort-godoc"), UJ), Rec(Seg1("b"), URel), Tok("close")>>,
      <<Tok("open"), Rec(Seg1("b"), UJ), Tok("type"), Tok("close")>>,
      <<Tok("open"), Rec(Seg1("b"), UJ)>> }

Absent == [exists |-> FALSE, content |-> <<>>]
File(doc) == [exists |-> TRUE, content |-> doc]

\* the Bolt file before the first start: not there, or left by an earlier run,
\* or filled by another tool
Stores ==
    { [bucket |-> FALSE, kv |-> NoPaths],
      [bucket |-> TRUE, kv |-> seedEntry],
      [bucket |-> TRUE, kv |-> Assign(seedEntry, Seg1("b"), UA)] }

ReqPaths ==
    { Seg1("b"), Seg1("c"), Seg1("urlshort-godoc"), Seg1("urlshort-bolt"),
      Str(<<"", "", "c">>) }

\* a BoltHandler call that did not return
BoltFailed == [ok |-> FALSE, opened |-> TRUE, paths |-> NoPaths]

NoHandlers == [h \in Names |-> NilHandler]
NoResult == [handler |-> NilHandler, err |-> FALSE]

-----------------------------------------------------------------------------
(* main *)

buildVars == <<data, redirects>>
files == <<yamlFile, jsonFile>>

Stopped == {"start", "serving", "panic", "exit"}

Init ==
    /\ pc = "start"
    /\ run = 0
    /\ store \in Stores
    /\ dbOpen = FALSE
    /\ dbOps = 0
    /\ yamlFile \in {Absent} \cup {File(d) : d \in YamlDocs}
    /\ jsonFile \in {Absent} \cup {File(d) : d \in JsonDocs}
    /\ yaml = <<>>
    /\ jsonData = <<>>
    /\ handlers = NoHandlers
    /\ lastErr = NoResult
    /\ served = "none"
    /\ failed = {}
    /\ reqs = <<>>
    /\ boltLog = <<>>
    /\ data = <<>>
    /\ redirects = NoPaths

\* The process is started (again, after it ended or was stopped): main builds
\* the mux and the MapHandler and parses the flags.
Main ==
    /\ pc \in Stopped
    /\ run < MaxRuns
    /\ run' = run + 1
    /\ pc' = "BoltOpen"
    /\ dbOpen' = FALSE
    /\ dbOps' = 0
    /\ yaml' = <<>>
    /\ jsonData' = <<>>
    /\ handlers' = [NoHandlers EXCEPT !["map"] = Handler(pathsToUrls, mainFallback("map"))]
    /\ lastErr' = NoResult
    /\ served' = "none"
    /\ failed' = {}
    /\ reqs' = <<>>
    /\ UNCHANGED <<store, boltLog, files, buildVars>>

\* BoltHandler: bolt.Open; log.Fatal when the file cannot be opened or locked
BoltOpen ==
    /\ pc = "BoltOpen"
    /\ \E ok \in BOOLEAN :
         IF ok
         THEN /\ dbOpen' = TRUE
              /\ dbOps' = dbOps + 1
              /\ pc' = "BoltUpdate"
              /\ UNCHANGED <<failed, boltLog>>
         ELSE /\ pc' = "exit"
              /\ failed' = failed \cup {"open"}
              /\ boltLog' = Append(boltLog, [BoltFailed EXCEPT !.opened = FALSE])
              /\ UNCHANGED <<dbOpen, dbOps>>
    /\ UNCHANGED <<run, store, yaml, jsonData, handlers, lastErr, served, reqs,
                   files, buildVars>>

\* BoltHandler: db.Update.  CreateBucket gives (nil, ErrBucketExists) for a
\* bucket that is there; the test that follows reads the err of bolt.Open,
\* which is nil, so b.Put is called on the nil bucket and panics: the
\* transaction is rolled back, the deferred db.Close runs, main dies.  For a
\* new bucket the pair is put and the transaction committed; the error of a
\* failed commit is dropped.
BoltUpdate ==
    /\ pc = "BoltUpdate"
    /\ IF store.bucket
       THEN /\ pc' = "panic"
            /\ dbOpen' = FALSE
            /\ dbOps' = dbOps + 2
            /\ failed' = failed \cup {"seed"}
            /\ boltLog' = Append(boltLog, BoltFailed)
            /\ UNCHANGED store
       ELSE /\ \E commit \in BOOLEAN :
                 IF commit
                 THEN /\ store' = [bucket |-> TRUE, kv |-> seedEntry]
                      /\ UNCHANGED failed
                 ELSE /\ failed' = failed \cup {"seed"}
                      /\ UNCHANGED store
            /\ pc' = "BoltView"
            /\ dbOps' = dbOps + 1
            /\ UNCHANGED <<dbOpen, boltLog>>
    /\ UNCHANGED <<run, yaml, jsonData, handlers, lastErr, served, reqs, files,
                   buildVars>>

\* (variant) BoltHandler without the deferred db.Close
BoltViewNoClose ==
    /\ pc = "BoltView"
    /\ dbOps' = dbOps + 1
    /\ IF store.bucket
       THEN /\ handlers' = [handlers EXCEPT !["bolt"] = Handler(store.kv, mainFallback("bolt"))]
            /\ lastErr' = [handler |-> Handler(store.kv, mainFallback("bolt")), err |-> FALSE]
            /\ boltLog' = Append(boltLog, [ok |-> TRUE, opened |-> TRUE, paths |-> store.kv])
            /\ pc' = "ReadYaml"
            /\ UNCHANGED failed
       ELSE /\ pc' = "panic"
            /\ failed' = failed \cup {"scan"}
            /\ boltLog' = Append(boltLog, BoltFailed)
            /\ UNCHANGED <<handlers, lastErr>>
    /\ UNCHANGED <<run, store, dbOpen, yaml, jsonData, served, reqs>>
    /\ UNCHANGED <<yamlFile, jsonFile, data, redirects>>

\* BoltHandler: db.View copies the bucket into paths, the handler is returned
\* and the deferred db.Close runs.  tx.Bucket gives nil for a bucket that is
\* not there and b.Cursor panics.
BoltView ==
    /\ pc = "BoltView"
    /\ dbOpen' = FALSE
    /\ dbOps' = dbOps + 2
    /\ IF store.bucket
       THEN /\ handlers' = [handlers EXCEPT !["bolt"] = Handler(store.kv, mainFallback("bolt"))]
            /\ lastErr' = [handler |-> Handler(store.kv, mainFallback("bolt")), err |-> FALSE]
            /\ boltLog' = Append(boltLog, [ok |-> TRUE, opened |-> TRUE, paths |-> store.kv])
            /\ pc' = "ReadYaml"
            /\ UNCHANGED failed
       ELSE /\ pc' = "panic"
            /\ failed' = failed \cup {"scan"}
            /\ boltLog' = Append(boltLog, BoltFailed)
            /\ UNCHANGED <<handlers, lastErr>>
    /\ UNCHANGED <<run, store, yaml, jsonData, served, reqs, files, buildVars>>

\* main: yaml, err := ioutil.ReadFile(*yamlFile); panic on err
ReadYaml ==
    /\ pc = "ReadYaml"
    /\ \E r \in ReadFile(yamlFile) :
         /\ yaml' = r.data
         /\ IF r.err
            THEN pc' = "panic" /\ failed' = failed \cup {"readyaml"}
            ELSE pc' = "YAMLHandler" /\ UNCHANGED failed
    /\ UNCHANGED <<run, store, dbOpen, dbOps, jsonData, handlers, lastErr, served,
                   reqs, boltLog, files, buildVars>>

\* main: yamlHandler, err := urlshort.YAMLHandler(yaml, boltHandler); panic on err
YAMLHandlerStep ==
    /\ pc = "YAMLHandler"
    /\ LET r == YAMLHandler(yaml, mainFallback("yaml"))
       IN  /\ lastErr' = r
           /\ handlers' = [handlers EXCEPT !["yaml"] = r.handler]
           /\ IF r.err
              THEN pc' = "panic" /\ failed' = failed \cup {"yaml"}
              ELSE pc' = "ReadJson" /\ UNCHANGED failed
    /\ UNCHANGED <<run, store, dbOpen, dbOps, yaml, jsonData, served, reqs, boltLog,
                   files, buildVars>>

\* main: jsonData, err := ioutil.ReadFile(*jsonFile); err is overwritten by the
\* next statement before anything reads it
ReadJson ==
    /\ pc = "ReadJson"
    /\ \E r \in ReadFile(jsonFile) :
         /\ jsonData' = r.data
         /\ failed' = IF r.err THEN failed \cup {"readjson"} ELSE failed
    /\ pc' = "JSONHandler"
    /\ UNCHANGED <<run, store, dbOpen, dbOps, yaml, handlers, lastErr, served, reqs,
                   boltLog, files, buildVars>>

\* main: jsonHandler, err := urlshort.JSONHandler(jsonData, yamlHandler); panic on err
JSONHandlerStep ==
    /\ pc = "JSONHandler"
    /\ LET r == JSONHandler(jsonData, mainFallback("json"))
       IN  /\ lastErr' = r
           /\ handlers' = [handlers EXCEPT !["json"] = r.handler]
           /\ IF r.err
              THEN pc' = "panic" /\ failed' = failed \cup {"json"}
              ELSE pc' = "Listen" /\ UNCHANGED failed
    /\ UNCHANGED <<run, store, dbOpen, dbOps, yaml, jsonData, served, reqs, boltLog,
                   files, buildVars>>

\* main: http.ListenAndServe(":8080", jsonHandler); when the port cannot be
\* bound it returns an error that main drops, and main returns
ListenAndServe ==
    /\ pc = "Listen"
    /\ served' = mainServed
    /\ \E ok \in BOOLEAN : pc' = IF ok THEN "serving" ELSE "exit"
    /\ UNCHANGED <<run, store, dbOpen, dbOps, yaml, jsonData, handlers, lastErr,
                   failed, reqs, boltLog, files, buildVars>>

-----------------------------------------------------------------------------
(* Requests *)

\* the server accepts a request and calls the served handler with it
Arrive(p) ==
    /\ pc = "serving"
    /\ Len(reqs) < MaxReqs
    /\ reqs' = Append(reqs, [path |-> p, at |-> served, trace |-> <<>>, resp |-> NoResp])
    /\ UNCHANGED <<pc, run, store, dbOpen, dbOps, yaml, jsonData, handlers, lastErr,
                   served, failed, boltLog, files, buildVars>>

\* (variant) the else is missing: the fallback is called after the redirect too
lookupNoElse(h, r) ==
    IF r.path \in DOMAIN h.paths
    THEN [r EXCEPT !.at = h.fallback, !.trace = Append(@, r.at),
                   !.resp = Redirect(r.path, h.paths[r.path], 302)]
    ELSE [r EXCEPT !.at = h.fallback, !.trace = Append(@, r.at)]

\* the func(w, r) a lookup handler is: redirect when r.URL.Path is a key of its
\* map, else fallback.ServeHTTP(w, r)
lookup(h, r) ==
    IF r.path \in DOMAIN h.paths
    THEN [r EXCEPT !.at = "done", !.trace = Append(@, r.at),
                   !.resp = Redirect(r.path, h.paths[r.path], 302)]
    ELSE [r EXCEPT !.at = h.fallback, !.trace = Append(@, r.at)]

\* (variant) a handler that forgets a path once it has redirected it
ServeEvict(name, i) ==
    /\ pc = "serving"
    /\ i \in 1..Len(reqs)
    /\ reqs[i].at = name
    /\ reqs' = [reqs EXCEPT ![i] = lookup(handlers[name], reqs[i])]
    /\ handlers' = [handlers EXCEPT ![name].paths =
                        [k \in DOMAIN @ \ {reqs[i].path} |-> @[k]]]
    /\ UNCHANGED <<pc, run, store, dbOpen, dbOps, yaml, jsonData, lastErr, served,
                   failed, boltLog, yamlFile, jsonFile, data, redirects>>

Serve(name, i) ==
    /\ pc = "serving"
    /\ i \in 1..Len(reqs)
    /\ reqs[i].at = name
    /\ reqs' = [reqs EXCEPT ![i] = lookup(handlers[name], reqs[i])]
    /\ UNCHANGED <<pc, run, store, dbOpen, dbOps, yaml, jsonData, handlers, lastErr,
                   served, failed, boltLog, files, buildVars>>

MapServe(i) == Serve("map", i)
BoltServe(i) == Serve("bolt", i)
YAMLServe(i) == Serve("yaml", i)
JSONServe(i) == Serve("json", i)

\* the mux at the end of the chain
MuxServe(i) ==
    /\ pc = "serving"
    /\ i \in 1..Len(reqs)
    /\ reqs[i].at = "mux"
    /\ reqs' = [reqs EXCEPT ![i] = [reqs[i] EXCEPT !.at = "done",
                                                   !.trace = Append(@, "mux"),
                                                   !.resp = defaultMux(reqs[i].path)]]
    /\ UNCHANGED <<pc, run, store, dbOpen, dbOps, yaml, jsonData, handlers, lastErr,
                   served, failed, boltLog, files, buildVars>>

Next ==
    \/ Main
    \/ BoltOpen
    \/ BoltUpdate
    \/ BoltView
    \/ ReadYaml
    \/ YAMLHandlerStep
    \/ ReadJson
    \/ JSONHandlerStep
    \/ ListenAndServe
    \/ \E p \in ReqPaths : Arrive(p)
    \/ \E i \in 1..MaxReqs : MapServe(i)
    \/ \E i \in 1..MaxReqs : BoltServe(i)
    \/ \E i \in 1..MaxReqs : YAMLServe(i)
    \/ \E i \in 1..MaxReqs : JSONServe(i)
    \/ \E i \in 1..MaxReqs : MuxServe(i)

Spec == Init /\ [][Next]_vars

-----------------------------------------------------------------------------
(* buildRedirectMap on its own *)

Paths == {Seg1("a"), Seg1("b")}
Urls == {UA, UY}

\* a []map[string]string element: any of the two fields may be missing
Records ==
    UNION {[D -> Paths \cup Urls] : D \in SUBSET {"path", "url"}}

TypedRecords ==
    {m \in Records : /\ ("path" \in DOMAIN m => m["path"] \in Paths)
                     /\ ("url" \in DOMAIN m => m["url"] \in Urls)}

RECURSIVE SeqsUpTo(_, _)
SeqsUpTo(S, n) ==
    IF n = 0 THEN {<<>>}
    ELSE LET shorter == SeqsUpTo(S, n - 1)
         IN  shorter \cup {Append(q, x) : q \in shorter, x \in S}

InitBuild ==
    /\ pc = "build"
    /\ data \in SeqsUpTo(TypedRecords, MaxRecs)
    /\ redirects = NoPaths
    /\ run = 0
    /\ store = [bucket |-> FALSE, kv |-> NoPaths]
    /\ dbOpen = FALSE
    /\ dbOps = 0
    /\ yamlFile = Absent
    /\ jsonFile = Absent
    /\ yaml = <<>>
    /\ jsonData = <<>>
    /\ handlers = NoHandlers
    /\ lastErr = NoResult
    /\ served = "none"
    /\ failed = {}
    /\ reqs = <<>>
    /\ boltLog = <<>>

Build ==
    /\ pc = "build"
    /\ redirects' = buildRedirectMap(data)
    /\ pc' = "built"
    /\ UNCHANGED <<run, store, dbOpen, dbOps, yaml, jsonData, handlers, lastErr,
                   served, failed, reqs, boltLog, files, data>>

NextBuild == Build

SpecBuild == InitBuild /\ [][NextBuild]_vars

-----------------------------------------------------------------------------
(* Properties *)

Done(r) == r.at = "done"
Has(h, p) == p \in DOMAIN handlers[h].paths
Mapped(h, p) == handlers[h].paths[p]

\* a rooted path without empty, "." or ".." elements (a last empty element is
\* a trailing slash)
Canonical(s) ==
    /\ Rooted(s)
    /\ \A k \in 2..Len(s) : s[k] \notin {".", ".."} /\ (s[k] = "" => k = Len(s))

\* where a redirect for url, issued for a request of path p, points: url
\* itself when it names a scheme or a host, else url taken relative to the
\* directory of p, in canonical form
Target(p, url) ==
    IF url.scheme # "" \/ url.host # "" THEN url
    ELSE IF Canonical(url.path) THEN url
    ELSE IF Rooted(url.path) THEN Str(cleanPath(url.path))
    ELSE Str(cleanPath(Front(p.path) \o url.path))

RedirectsTo(r, url) ==
    /\ r.resp.status = 302
    /\ r.resp.location = {Target(r.path, url)}

OrderClaimed == <<"map", "bolt", "yaml", "json">>
OrderServed == <<"json", "yaml", "bolt", "map">>

Hits(order, p) == {k \in 1..Len(order) : Has(order[k], p)}
FirstHit(order, p) == order[CHOOSE k \in Hits(order, p) : \A j \in Hits(order, p) : k <= j]

AnsweredInOrder(order) ==
    \A i \in 1..Len(reqs) :
        (Done(reqs[i]) /\ Hits(order, reqs[i].path) # {})
            => RedirectsTo(reqs[i], Mapped(FirstHit(order, reqs[i].path), reqs[i].path))

\* C1 (as claimed): every answered request whose path is in some source is
\* redirected to the value of the first of static map, store, YAML, JSON that
\* has the path.
C1_StaticMapFirst == AnsweredInOrder(OrderClaimed)

\* C1 (amended): the served chain consults JSON, then YAML, then the store,
\* then the static map: every answered request whose path is in some source is
\* redirected to the value of the first of these that has the path, and the
\* static map is the literal of main.
C1_JsonFirst ==
    /\ AnsweredInOrder(OrderServed)
    /\ pc = "serving" => handlers["map"].paths = pathsToUrls

\* a path of the static map that the JSON file maps elsewhere was answered
C1_Witness ==
    \E i \in 1..Len(reqs) :
        /\ Done(reqs[i])
        /\ reqs[i].path \in DOMAIN pathsToUrls
        /\ Has("json", reqs[i].path)
        /\ Mapped("json", reqs[i].path) # pathsToUrls[reqs[i].path]
        /\ reqs[i].resp.location = {Mapped("json", reqs[i].path)}

\* C2 (as claimed): a BoltHandler call that follows a successful one and opens
\* the file succeeds too and gives the same snapshot.
C2_SecondOpenSameSnapshot ==
    \A k \in 2..Len(boltLog) :
        (boltLog[k - 1].ok /\ boltLog[k].opened)
            => (boltLog[k].ok /\ boltLog[k].paths = boltLog[k - 1].paths)

AbsentEverywhere(p) == \A h \in Names : ~Has(h, p)
WholeChain == <<"json", "yaml", "bolt", "map", "mux">>
Greeting == [status |-> 200, location |-> {}, body |-> "Hello, world!\n"]

\* C3 (as claimed): a request whose path is in no source passes every handler
\* and is answered with the greeting and status 200.
C3_GreetingForEveryUnmatched ==
    \A i \in 1..Len(reqs) :
        (Done(reqs[i]) /\ AbsentEverywhere(reqs[i].path))
            => (reqs[i].trace = WholeChain /\ reqs[i].resp = Greeting)

\* C3 (amended): a request whose path is in no source passes every handler; it
\* is answered with the greeting and status 200 when its path is in canonical
\* form, and with a 301 to the canonical form of its path otherwise.
C3_GreetingForCanonicalUnmatched ==
    \A i \in 1..Len(reqs) :
        (Done(reqs[i]) /\ AbsentEverywhere(reqs[i].path))
            => /\ reqs[i].trace = WholeChain
               /\ IF Canonical(reqs[i].path.path)
                  THEN reqs[i].resp = Greeting
                  ELSE /\ reqs[i].resp.status = 301
                       /\ \E t \in reqs[i].resp.location :
                            /\ t.scheme = "" /\ t.host = ""
                            /\ Canonical(t.path)
                            /\ t.path = cleanPath(reqs[i].path.path)

\* a canonical path that is in no source was answered, and so was one that is
\* not canonical
C3_Witness ==
    /\ \E i \in 1..Len(reqs) :
        Done(reqs[i]) /\ AbsentEverywhere(reqs[i].path) /\ Canonical(reqs[i].path.path)
    /\ \E i \in 1..Len(reqs) :
        Done(reqs[i]) /\ AbsentEverywhere(reqs[i].path) /\ ~Canonical(reqs[i].path.path)

\* what every lookup handler a request has been through did with it, but for
\* the Location of the redirect
Passed(r) ==
    \A k \in 1..Len(r.trace) :
        LET h == r.trace[k]
        IN  h \in Names =>
              /\ \A j \in 1..Len(r.trace) : r.trace[j] = h => j = k
              /\ IF Has(h, r.path)
                 THEN k = Len(r.trace) /\ Done(r) /\ r.resp.status = 302
                 ELSE /\ k < Len(r.trace) => r.trace[k + 1] = handlers[h].fallback
                      /\ k = Len(r.trace) => r.at = handlers[h].fallback
                      /\ (Done(r) /\ r.trace[Len(r.trace)] = "mux")
                            => r.resp.status \in {200, 301}

Answerer(r) == r.trace[Len(r.trace)]

\* C4 (as claimed): a handler that has the path answers 302 with exactly the
\* mapped URL as Location and does not call its fallback; one that has not calls
\* its fallback once and leaves the answer to it.
C4_RedirectToExactlyMapped ==
    \A i \in 1..Len(reqs) :
        /\ Passed(reqs[i])
        /\ (Done(reqs[i]) /\ Answerer(reqs[i]) \in Names)
              => reqs[i].resp.location = {Mapped(Answerer(reqs[i]), reqs[i].path)}

\* C4 (amended): a handler that has the path answers 302 and does not call its
\* fallback; the Location is exactly the mapped URL when that names a scheme or
\* a host or is a canonical rooted path, and else the mapped URL taken relative
\* to the directory of the request path, in canonical form.  A handler that has
\* not the path calls its fallback once and leaves the answer to it.
C4_RedirectToResolvedMapped ==
    \A i \in 1..Len(reqs) :
        /\ Passed(reqs[i])
        /\ (Done(reqs[i]) /\ Answerer(reqs[i]) \in Names)
              => RedirectsTo(reqs[i], Mapped(Answerer(reqs[i]), reqs[i].path))

\* one request was redirected to an absolute URL as it is mapped, another to a
\* relative or empty one, and a third fell through a handler
C4_Witness ==
    /\ \E i \in 1..Len(reqs) :
        /\ Done(reqs[i]) /\ Answerer(reqs[i]) \in Names
        /\ Mapped(Answerer(reqs[i]), reqs[i].path).scheme = ""
        /\ reqs[i].resp.location # {Mapped(Answerer(reqs[i]), reqs[i].path)}
    /\ \E i \in 1..Len(reqs) :
        /\ Done(reqs[i]) /\ Answerer(reqs[i]) \in Names /\ Len(reqs[i].trace) >= 2
        /\ reqs[i].resp.location = {Mapped(Answerer(reqs[i]), reqs[i].path)}

\* the text is not a list of string mappings
Malformed(doc) == HasKind(doc, "syntax") \/ HasKind(doc, "type")
MalformedJson(doc) == Malformed(doc) \/ ~jsonValid(doc)

YamlBuilt == pc \in {"ReadJson", "JSONHandler", "Listen", "serving"} \/ served # "none"
                \/ "yaml" \in failed
JsonBuilt == pc \in {"Listen", "serving"} \/ served # "none" \/ "json" \in failed

\* C5: once YAMLHandler (JSONHandler) has been called on malformed input it has
\* returned an error and the nil handler, main has panicked, and no request is
\* ever handled; the records decoded before the error are in no handler.
C5_MalformedGivesNoHandler ==
    /\ (YamlBuilt /\ Malformed(yaml))
          => /\ handlers["yaml"] = NilHandler
             /\ "yaml" \in failed /\ pc = "panic" /\ reqs = <<>>
             /\ lastErr = [handler |-> NilHandler, err |-> TRUE]
    /\ (JsonBuilt /\ MalformedJson(jsonData))
          => /\ handlers["json"] = NilHandler
             /\ "json" \in failed /\ pc = "panic" /\ reqs = <<>>
             /\ lastErr = [handler |-> NilHandler, err |-> TRUE]

\* YAMLHandler failed on a document of which a record had been decoded, and
\* JSONHandler (in another run) on one likewise
C5_Witness ==
    /\ pc = "panic"
    /\ \/ "yaml" \in failed /\ HasKind(yaml, "type") /\ RecsOf(yaml) # <<>>
       \/ "json" \in failed /\ HasKind(jsonData, "type") /\ RecsOf(jsonData) # <<>>

\* C6 (as claimed): the server accepts requests only when no startup step of
\* the run has failed.
C6_NoPartialStartup == pc = "serving" => failed = {}

StoreSteps == {"BoltOpen", "BoltUpdate", "BoltView"}

\* C9: the store is closed whenever the server accepts or handles requests,
\* and the store, its handle and the count of its operations change only in
\* the steps of BoltHandler (or when the process is started anew).
C9_StoreOnlyAtStartup ==
    /\ [](pc = "serving" => ~dbOpen)
    /\ [](reqs # <<>> => (pc = "serving" /\ ~dbOpen))
    /\ [][(store' # store \/ dbOpen' # dbOpen \/ dbOps' # dbOps)
             => (pc \in StoreSteps \/ (pc \in Stopped /\ pc' = "BoltOpen"))]_vars

\* a request was answered from the store's snapshot after the four store
\* operations of the startup
C9_Witness ==
    /\ pc = "serving" /\ dbOps = 4 /\ ~dbOpen
    /\ \E i \in 1..Len(reqs) :
         Done(reqs[i]) /\ Answerer(reqs[i]) = "bolt" /\ reqs[i].path \in DOMAIN store.kv

\* the answer of the chain from handler name on, to a request served alone
RECURSIVE Alone(_, _)
Alone(name, p) ==
    IF name = "mux" THEN defaultMux(p)
    ELSE IF Has(name, p) THEN Redirect(p, Mapped(name, p), 302)
    ELSE Alone(handlers[name].fallback, p)

\* C10: while the server serves, no step changes a handler's mapping or the
\* wiring; every answered request has the answer the chain gives to its path
\* alone, and two answered requests of the same path have the same answer.
C10_HandlersReadOnly ==
    /\ [][(pc = "serving" /\ pc' = "serving")
             => (handlers' = handlers /\ served' = served)]_vars
    /\ [](\A i \in 1..Len(reqs) :
             Done(reqs[i]) => reqs[i].resp = Alone(served, reqs[i].path))
    /\ [](\A i, j \in 1..Len(reqs) :
             (Done(reqs[i]) /\ Done(reqs[j]) /\ reqs[i].path = reqs[j].path)
                 => reqs[i].resp = reqs[j].resp)

\* two requests of the same mapped path went through a fallback and are both
\* answered
C10_Witness ==
    /\ Len(reqs) >= 2
    /\ reqs[1].path = reqs[2].path
    /\ Done(reqs[1]) /\ Done(reqs[2])
    /\ reqs[1].resp.status = 302
    /\ Len(reqs[1].trace) >= 2

WellFormed(recs) == \A i \in 1..Len(recs) : DOMAIN recs[i] = {"path", "url"}
LastWith(recs, i, key) ==
    /\ Index(recs[i], "path") = key
    /\ \A j \in (i + 1)..Len(recs) : Index(recs[j], "path") # key

\* C7: for well-formed records the keys of the result are the paths of the input,
\* each key maps to the url of the last record with that path, and records of
\* pairwise distinct paths give as many entries as there are records.
C7_LastWriteWins ==
    (pc = "built" /\ WellFormed(data))
        => /\ DOMAIN redirects = {data[i]["path"] : i \in 1..Len(data)}
           /\ \A i \in 1..Len(data) :
                LastWith(data, i, data[i]["path"]) => redirects[data[i]["path"]] = data[i]["url"]
           /\ (\A i, j \in 1..Len(data) : data[i]["path"] = data[j]["path"] => i = j)
                => Cardinality(DOMAIN redirects) = Len(data)

\* two well-formed records of the same path and different urls were built
C7_Witness ==
    /\ pc = "built" /\ WellFormed(data) /\ Len(data) >= 2
    /\ \E i, j \in 1..Len(data) :
         i < j /\ data[i]["path"] = data[j]["path"] /\ data[i]["url"] # data[j]["url"]

\* C8: a record without a field counts as having "" there: the keys of the
\* result are the paths ("" for a missing one) of all records, and each maps to
\* the url ("" for a missing one) of the last record of that key.
C8_MissingFieldIsEmpty ==
    pc = "built"
        => /\ DOMAIN redirects = {Index(data[i], "path") : i \in 1..Len(data)}
           /\ \A i \in 1..Len(data) :
                (DOMAIN data[i] # {"path", "url"} /\ LastWith(data, i, Index(data[i], "path")))
                    => redirects[Index(data[i], "path")] =
                          (IF "url" \in DOMAIN data[i] THEN data[i]["url"] ELSE Empty)

\* a record without url, one without path and one with neither were built, and
\* one of them overwrote an earlier record
C8_Witness ==
    /\ pc = "built"
    /\ \E i, j \in 1..Len(data) :
         /\ i < j
         /\ DOMAIN data[j] # {"path", "url"}
         /\ Index(data[i], "path") = Index(data[j], "path")
         /\ Index(data[i], "url") # Index(data[j], "url")
         /\ redirects[Index(data[j], "path")] = Index(data[j], "url")

====
